---- MODULE Spec2Model ----
(***************************************************************************)
(* swaylock: the session-lock state machine of main.c.                     *)
(*                                                                         *)
(* The model follows main() from the first registry round trip to process  *)
(* exit.  `pc` is main's position; the Wayland event handlers of main.c are *)
(* actions enabled while main is inside a dispatching call                 *)
(* (wl_display_roundtrip, wl_display_dispatch).  The display server, the   *)
(* password checker subprocess and signal delivery are the environment.    *)
(*                                                                         *)
(* Variables whose name starts with g_ are history (ghost) variables: they *)
(* record what the program did (requests issued, bytes written, verdicts   *)
(* read) and are never read by the program's actions.                      *)
(***************************************************************************)
EXTENDS Integers, Sequences, FiniteSets, TLC

\* ---------------------------------------------------------------- bounds
\* output globals the server announces during a run
MaxOutputs == 2
\* negative verdicts the checker gives during a run
MaxAttempts == 3
\* optional environment events during a run: surface events (configure,
\* scale, geometry), output withdrawals, key presses, SIGUSR1 deliveries and
\* a crash of the checker
MaxEnvEvents == 2
\* capacity of the password buffer (state.password.buffer_len, 1024 in
\* main.c), scaled down
MaxBufferLen == 4
\* bytes the self-pipe holds before a write to it fails with EAGAIN (65536 on
\* Linux), scaled down
PipeCap == 1
\* --image options processed before the first surface is created
MaxLoads == 3
\* lines read from the config file
MaxLines == 3

\* ------------------------------------------------------ program constants
EXIT_FAILURE == 1
EXIT_MISSING_GLOBAL == 1
EXIT_ROUNDTRIP2 == 1
EXIT_FINISHED == 2
EXIT_DISPATCH == 2
EXIT_READY == 2
EXIT_DAEMONIZE == 1
EXIT_OK == 0
READY_FD_DEFAULT == 0 - 1
READY_FD_GIVEN == 3

Running == 0 - 1

Outputs == 1 .. MaxOutputs
\* A registry name that belongs to no output (some other global).
OtherName == MaxOutputs + 1
Mandatory == {"wl_compositor", "wl_subcompositor", "wl_shm",
              "ext_session_lock_manager_v1"}
\* values carried by the surface events: <<width, height>>, scale, subpixel
Sizes == {<<1, 2>>, <<2, 1>>}
Scales == {2}
Subpixels == {1}

\* calloc'ed struct swaylock_surface of handle_global
NewSurface ==
  [exists |-> TRUE, created |-> FALSE, dirty |-> FALSE,
   width |-> 0, height |-> 0, scale |-> 0, subpixel |-> 0]

\* no record in state.surfaces for this output
NoSurface == [NewSurface EXCEPT !.exists = FALSE]

\* enum background_mode: the initial value of state.args.mode and the value
\* parse_background_mode returns for a mode it does not know
BACKGROUND_MODE_FILL == "FILL"
BACKGROUND_MODE_TILE == "TILE"
BACKGROUND_MODE_INVALID == "INVALID"

\* a null char pointer; a C string is a sequence of characters 1, 2, ... and
\* never holds the terminator 0
NULL == <<0>>

\* a null cairo_surface_t pointer
NoImage == 0

\* no configure event has been handled yet
NoConfigure ==
  [output |-> 0, serial |-> 0, width |-> 0, height |-> 0, calls |-> <<>>]

VARIABLES
  pc,              \* position of main()
  exit_status,     \* Running, or the status the process ended with
  globals,         \* mandatory globals bound by handle_global
  lock_obj,        \* state.ext_session_lock_v1: "none", "live", "destroyed"
  locked,          \* state.locked
  run_display,     \* state.run_display
  failed_attempts, \* state.failed_attempts
  auth_state,      \* state.auth_state
  ready_fd,        \* state.args.ready_fd
  daemonize_arg,   \* state.args.daemonize
  ignore_empty,    \* state.args.ignore_empty
  images,          \* state.images, head of the list first
  img_surface,     \* the surface select_image last ran for, and its result
  args_mode,       \* state.args.mode
  config,          \* load_config: "unread", "reading", "failed" (fopen), "break",
                   \* "eof", "returned"
  line_number,     \* line_number of load_config
  pw_len,          \* state.password.len
  pw_buffer,       \* state.password.buffer
  surfaces,        \* state.surfaces, keyed by output global name
  sigusr_pipe,     \* bytes waiting in the self-pipe sigusr_fds
  handler,         \* SIGUSR1 disposition: "default" or "do_sigusr"
  loop_fds,        \* callbacks registered with state.eventloop
  revents,         \* readiness loop_poll saw for the reply fd and the self-pipe
  \* environment
  announced,       \* output globals the server has announced so far
  sync_wait,       \* outputs whose description precedes the pending sync
  checker,         \* checker subprocess: alive, request outstanding, reply
  next_serial,     \* next configure serial of the server
  budget,          \* optional environment events still to come
  conn,            \* display connection: "up", "epipe" (the server is gone,
                   \* what it sent can still be read) or "dead"
  unflushed,       \* outputs whose bind request has not left the process
  \* history
  g_done,          \* outputs whose `done` event was dispatched
  g_gls,           \* get_lock_surface requests issued, per output
  g_recv,          \* configure serials received, per output
  g_acked,         \* serials acknowledged, per output
  g_conf,          \* the last configure event and the calls its handler made
  g_cause,         \* why the process ended
  g_finished,      \* a `finished` event was dispatched
  g_denied,        \* `finished` was dispatched before `locked`
  g_positive,      \* a positive verdict was read
  g_term,          \* term_in ran
  g_negative,      \* negative verdicts read
  g_lock_reqs,     \* lock requests issued
  g_unlocks,       \* unlock_and_destroy requests issued
  g_roundtrips,    \* round trips after unlock_and_destroy
  g_submits,       \* requests written to the checker
  g_pw_op,         \* the last operation on the password buffer
  g_ready_bytes,   \* bytes written to the readiness descriptor
  g_ready_given,   \* a readiness descriptor was supplied
  g_ready_closed,  \* the readiness descriptor was closed
  g_ready_tried,   \* the readiness write was attempted
  g_daemonized,    \* daemonize() forked and the foreground exited 0
  g_sig_locked,    \* SIGUSR1 was delivered while state.locked
  g_sigs,          \* SIGUSR1 signals delivered
  g_loads          \* load_image calls so far

progV == <<pc, exit_status, g_cause>>
sessV == <<globals, lock_obj, locked, run_display>>
pwV == <<pw_len, pw_buffer, g_pw_op>>
authV == <<failed_attempts, auth_state, pwV, checker>>
imgV == <<images, img_surface, g_loads>>
cfgV == <<args_mode, config, line_number>>
argsV == <<ready_fd, daemonize_arg, ignore_empty, imgV, cfgV>>
surfV == <<surfaces, announced, sync_wait, next_serial>>
sigV == <<sigusr_pipe, handler, loop_fds, g_sig_locked, g_sigs>>
connV == <<conn, unflushed>>
gSurfV == <<g_done, g_gls, g_recv, g_acked, g_conf>>
gLockV == <<g_finished, g_denied, g_lock_reqs, g_unlocks, g_roundtrips>>
gAuthV == <<g_positive, g_term, g_negative, g_submits>>
gReadyV == <<g_ready_bytes, g_ready_given, g_ready_closed, g_ready_tried,
             g_daemonized>>

vars == <<progV, sessV, authV, argsV, surfV, budget, connV, sigV, revents,
          gSurfV, gLockV, gAuthV, gReadyV>>

NoEvents == [comm |-> {}, term |-> FALSE]

Init ==
  /\ pc = "roundtrip1"
  /\ exit_status = Running
  /\ g_cause = "none"
  /\ globals = {}
  /\ lock_obj = "none"
  /\ locked = FALSE
  /\ run_display = FALSE
  /\ failed_attempts = 0
  /\ auth_state = "IDLE"
  /\ pw_len = 0
  /\ pw_buffer = [i \in 1 .. MaxBufferLen |-> 0]
  /\ g_pw_op = "none"
  /\ checker = [alive |-> TRUE, request |-> FALSE, reply |-> "none"]
  /\ ready_fd \in {READY_FD_DEFAULT, READY_FD_GIVEN}
  /\ g_ready_given = (ready_fd >= 0)
  /\ daemonize_arg \in BOOLEAN
  /\ ignore_empty \in BOOLEAN
  /\ images = <<>>
  /\ img_surface = [output_name |-> NULL, image |-> NoImage, selected |-> FALSE]
  /\ g_loads = 0
  /\ args_mode = BACKGROUND_MODE_FILL
  /\ config = "unread"
  /\ line_number = 0
  /\ surfaces = [o \in Outputs |-> NoSurface]
  /\ announced = {}
  /\ sync_wait = {}
  /\ next_serial = 1
  /\ budget = MaxEnvEvents
  /\ conn = "up"
  /\ unflushed = {}
  /\ sigusr_pipe = 0
  /\ handler = "default"
  /\ g_sig_locked = FALSE
  /\ loop_fds = {}
  /\ g_sigs = 0
  /\ revents = NoEvents
  /\ g_done = {}
  /\ g_gls = [o \in Outputs |-> 0]
  /\ g_recv = [o \in Outputs |-> <<>>]
  /\ g_acked = [o \in Outputs |-> <<>>]
  /\ g_conf = NoConfigure
  /\ g_finished = FALSE
  /\ g_denied = FALSE
  /\ g_lock_reqs = 0
  /\ g_unlocks = 0
  /\ g_roundtrips = 0
  /\ g_submits = 0
  /\ g_positive = FALSE
  /\ g_term = FALSE
  /\ g_negative = 0
  /\ g_ready_bytes = 0
  /\ g_ready_closed = FALSE
  /\ g_ready_tried = FALSE
  /\ g_daemonized = FALSE

\* exit(status) / return status from main
Exit(status, cause) ==
  /\ pc' = "exited"
  /\ exit_status' = status
  /\ g_cause' = cause

\* main is inside wl_display_roundtrip or wl_display_dispatch
Dispatching ==
  /\ pc \in {"roundtrip1", "roundtrip2", "dispatch_lock", "display_in",
             "final_roundtrip"}
  /\ conn # "dead"

Live(o) == surfaces[o].exists

\* the outputs whose initial description the server sends before it answers a
\* sync issued now: those bound and not yet described
Undescribed == {o \in Outputs : Live(o) /\ o \notin g_done}

Alive == pc \notin {"exited", "killed"}

\* ------------------------------------------------------------- rendering
\* render(surface) draws the surface; the drawing code is not part of the
\* model, so the dirty flag keeps the value main.c gives it.

\* damage_state: every surface of the list is marked dirty (and rendered)
damage_state ==
  surfaces' = [o \in Outputs |->
                 IF Live(o) THEN [surfaces[o] EXCEPT !.dirty = TRUE]
                 ELSE surfaces[o]]

\* ------------------------------------------------- registry event handlers
\* handle_global.  The server numbers its globals in the order it creates
\* them, so output names are announced in increasing order.
handle_global(name, iface) ==
  /\ Dispatching
  /\ \/ /\ iface \in Mandatory \ globals
        /\ name = OtherName
        /\ globals' = globals \cup {iface}
        /\ UNCHANGED <<surfaces, announced, unflushed>>
     \/ /\ iface = "wl_output"
        /\ name \in Outputs \ announced
        /\ \A m \in Outputs : m < name => m \in announced
        /\ surfaces' = [surfaces EXCEPT ![name] = NewSurface]
        /\ announced' = announced \cup {name}
        /\ unflushed' = IF pc \in {"display_in", "dispatch_lock"} \/ conn # "up"
                        THEN unflushed \cup {name}
                        ELSE unflushed
        /\ UNCHANGED globals
  /\ UNCHANGED <<progV, lock_obj, locked, run_display, authV, argsV,
                 sync_wait, next_serial, budget, conn, sigV, revents,
                 gSurfV, gLockV, gAuthV, gReadyV>>

\* destroy_surface that unlinks the record and leaves its lock surface alone
destroy_surface_keeps_lock_surface(o) ==
  /\ surfaces' = [surfaces EXCEPT ![o] = [@ EXCEPT !.exists = FALSE]]
  /\ sync_wait' = sync_wait \ {o}
  /\ unflushed' = unflushed \ {o}

\* destroy_surface: the record leaves the list and is freed
destroy_surface(o) ==
  /\ surfaces' = [surfaces EXCEPT ![o] = NoSurface]
  /\ sync_wait' = sync_wait \ {o}
  /\ unflushed' = unflushed \ {o}

handle_global_remove(name) ==
  /\ Dispatching
  /\ \/ /\ name \in Outputs
        /\ Live(name)
        /\ budget > 0
        /\ budget' = budget - 1
        /\ destroy_surface(name)
     \/ /\ name = OtherName
        /\ UNCHANGED <<surfaces, sync_wait, unflushed, budget>>
  /\ UNCHANGED <<progV, sessV, authV, argsV, announced, next_serial, conn,
                 sigV, revents, gSurfV, gLockV, gAuthV, gReadyV>>

\* --------------------------------------------------- output event handlers
\* create_surface: get_lock_surface on state.ext_session_lock_v1
create_surface(s) == [s EXCEPT !.created = TRUE]

\* handle_wl_output_done without the test of surface->created
handle_wl_output_done_always_creates(o) ==
  /\ Dispatching
  /\ Live(o)
  /\ o \notin unflushed
  /\ g_done' = g_done \cup {o}
  /\ sync_wait' = sync_wait \ {o}
  /\ IF run_display
     THEN /\ surfaces' = [surfaces EXCEPT ![o] = create_surface(@)]
          /\ g_gls' = [g_gls EXCEPT ![o] = @ + 1]
     ELSE UNCHANGED <<surfaces, g_gls>>
  /\ UNCHANGED <<connV, progV, sessV, authV, argsV, announced, next_serial, budget,
                 sigV, revents, g_recv, g_acked, g_conf, gLockV, gAuthV, gReadyV>>

\* handle_wl_output_done.  create_surface on a lock object that was already
\* destroyed is a use of freed memory: the request goes out or the process
\* dies.
handle_wl_output_done(o) ==
  /\ Dispatching
  /\ Live(o)
  /\ o \notin unflushed
  /\ g_done' = g_done \cup {o}
  /\ sync_wait' = sync_wait \ {o}
  /\ IF ~surfaces[o].created /\ run_display
     THEN \/ /\ surfaces' = [surfaces EXCEPT ![o] = create_surface(@)]
             /\ g_gls' = [g_gls EXCEPT ![o] = @ + 1]
             /\ UNCHANGED progV
          \/ /\ lock_obj = "destroyed"
             /\ pc' = "killed"
             /\ g_cause' = "use_after_free"
             /\ UNCHANGED <<exit_status, surfaces, g_gls>>
     ELSE UNCHANGED <<surfaces, g_gls, progV>>
  /\ UNCHANGED <<connV, sessV, authV, argsV, announced, next_serial, budget, sigV,
                 revents, g_recv, g_acked, g_conf, gLockV, gAuthV, gReadyV>>

handle_wl_output_scale(o, factor) ==
  /\ Dispatching
  /\ Live(o)
  /\ o \notin unflushed
  /\ budget > 0
  /\ budget' = budget - 1
  /\ surfaces' = [surfaces EXCEPT ![o] =
        IF run_display THEN [@ EXCEPT !.scale = factor, !.dirty = TRUE]
        ELSE [@ EXCEPT !.scale = factor]]
  /\ UNCHANGED <<connV, progV, sessV, authV, argsV, announced, sync_wait,
                 next_serial, sigV, revents, g_done, g_gls, g_recv, g_acked, g_conf,
                 gLockV, gAuthV, gReadyV>>

handle_wl_output_geometry(o, subpixel) ==
  /\ Dispatching
  /\ Live(o)
  /\ o \notin unflushed
  /\ budget > 0
  /\ budget' = budget - 1
  /\ surfaces' = [surfaces EXCEPT ![o] =
        IF run_display THEN [@ EXCEPT !.subpixel = subpixel, !.dirty = TRUE]
        ELSE [@ EXCEPT !.subpixel = subpixel]]
  /\ UNCHANGED <<connV, progV, sessV, authV, argsV, announced, sync_wait,
                 next_serial, sigV, revents, g_done, g_gls, g_recv, g_acked, g_conf,
                 gLockV, gAuthV, gReadyV>>

\* ext_session_lock_surface_v1_handle_configure
\* an acknowledgement that carries the serial before the one received
AckSerial_previous(serial) == serial - 1

AckSerial(serial) == serial

\* a configure handler that damages the whole state as damage_state does
handle_configure_damages_all(o, width, height) ==
  /\ Dispatching
  /\ Live(o)
  /\ surfaces[o].created
  /\ budget > 0
  /\ budget' = budget - 1
  /\ next_serial' = next_serial + 1
  /\ g_recv' = [g_recv EXCEPT ![o] = Append(@, next_serial)]
  /\ g_acked' = [g_acked EXCEPT ![o] = Append(@, AckSerial(next_serial))]
  /\ surfaces' = [p \in Outputs |->
        IF p = o
        THEN [surfaces[p] EXCEPT !.width = width, !.height = height,
                                 !.dirty = TRUE]
        ELSE IF Live(p) THEN [surfaces[p] EXCEPT !.dirty = TRUE]
        ELSE surfaces[p]]
  /\ g_conf' = [output |-> o, serial |-> next_serial, width |-> width,
                height |-> height, calls |-> <<"ack_configure", "render">>]
  /\ UNCHANGED <<connV, progV, sessV, authV, argsV, announced, sync_wait, sigV,
                 revents, g_done, g_gls, gLockV, gAuthV, gReadyV>>

handle_configure(o, width, height) ==
  /\ Dispatching
  /\ Live(o)
  /\ surfaces[o].created
  /\ budget > 0
  /\ budget' = budget - 1
  /\ next_serial' = next_serial + 1
  /\ g_recv' = [g_recv EXCEPT ![o] = Append(@, next_serial)]
  /\ g_acked' = [g_acked EXCEPT ![o] = Append(@, AckSerial(next_serial))]
  /\ surfaces' = [surfaces EXCEPT ![o] =
        [@ EXCEPT !.width = width, !.height = height, !.dirty = TRUE]]
  /\ g_conf' = [output |-> o, serial |-> next_serial, width |-> width,
                height |-> height, calls |-> <<"ack_configure", "render">>]
  /\ UNCHANGED <<connV, progV, sessV, authV, argsV, announced, sync_wait, sigV,
                 revents, g_done, g_gls, gLockV, gAuthV, gReadyV>>

\* ----------------------------------------------------- lock event handlers
handle_locked ==
  /\ Dispatching
  /\ lock_obj = "live"
  /\ ~locked
  /\ locked' = TRUE
  /\ UNCHANGED <<connV, progV, globals, lock_obj, run_display, authV, argsV, surfV, budget,
                 sigV, revents, gSurfV, gLockV, gAuthV, gReadyV>>

handle_finished_logs_only ==
  /\ Dispatching
  /\ lock_obj = "live"
  /\ ~g_finished
  /\ g_finished' = TRUE
  /\ g_denied' = (g_denied \/ ~locked)
  /\ UNCHANGED <<connV, progV, sessV, authV, argsV, surfV, budget, sigV, revents,
                 gSurfV, g_lock_reqs, g_unlocks, g_roundtrips, gAuthV,
                 gReadyV>>

handle_finished ==
  /\ Dispatching
  /\ lock_obj = "live"
  /\ Exit(EXIT_FINISHED, "finished")
  /\ g_finished' = TRUE
  /\ g_denied' = (g_denied \/ ~locked)
  /\ UNCHANGED <<connV, sessV, authV, argsV, surfV, budget, sigV, revents, gSurfV,
                 g_lock_reqs, g_unlocks, g_roundtrips,
                 gAuthV, gReadyV>>

\* ------------------------------------------------------- password buffer
\* the characters typed: a one-byte one and a two-byte one (lead byte 2,
\* continuation byte 3)
Chars == {<<1>>, <<2, 3>>}

Password == [len |-> pw_len, buffer |-> pw_buffer]

\* the buffer after an operation, with the operation that produced it
Store(pw, op) ==
  /\ pw_len' = pw.len
  /\ pw_buffer' = pw.buffer
  /\ g_pw_op' = op

\* append without the test of the room left
password_append_unchecked(pw, ch) ==
  [len |-> pw.len + Len(ch),
   buffer |-> [i \in 1 .. MaxBufferLen |->
                 IF i > pw.len /\ i <= pw.len + Len(ch)
                 THEN ch[i - pw.len] ELSE pw.buffer[i]]]

\* append(bytes): the character is added if it fits, otherwise dropped
password_append(pw, ch) ==
  IF pw.len + Len(ch) > MaxBufferLen
  THEN pw
  ELSE [len |-> pw.len + Len(ch),
        buffer |-> [i \in 1 .. MaxBufferLen |->
                      IF i > pw.len /\ i <= pw.len + Len(ch)
                      THEN ch[i - pw.len] ELSE pw.buffer[i]]]

\* index of the first byte of the last character of the content
LastCharStart(pw) ==
  CHOOSE k \in 1 .. pw.len :
    /\ pw.buffer[k] # 3
    /\ \A j \in (k + 1) .. pw.len : pw.buffer[j] = 3

\* delete_last_char(): removes the trailing character, all its bytes; nothing
\* on an empty buffer.  Whether the removed bytes are wiped is left open.
password_delete_last_char(pw, wipe) ==
  IF pw.len = 0
  THEN pw
  ELSE [len |-> LastCharStart(pw) - 1,
        buffer |-> [i \in 1 .. MaxBufferLen |->
                      IF wipe /\ i >= LastCharStart(pw) THEN 0
                      ELSE pw.buffer[i]]]

\* clear(): every byte of the buffer is zeroed, the length is reset
password_clear(pw) ==
  [len |-> 0, buffer |-> [i \in 1 .. MaxBufferLen |-> 0]]

\* ------------------------------------------------------------ key input
\* Key events reach the process once the session is locked and a lock
\* surface exists to take the keyboard focus.
HasFocus == locked /\ \E o \in Outputs : Live(o) /\ surfaces[o].created

\* a character is appended to the password buffer
key_append ==
  /\ Dispatching
  /\ budget > 0
  /\ budget' = budget - 1
  /\ HasFocus
  /\ Store(password_append(Password, <<1>>), "append")
  /\ UNCHANGED <<connV, progV, sessV, failed_attempts, auth_state, checker, argsV,
                 surfV, sigV, revents, gSurfV, gLockV, gAuthV, gReadyV>>

\* submit that sends a new request while a verdict is awaited
submit_while_awaiting ==
  /\ Dispatching
  /\ HasFocus
  /\ IF ignore_empty /\ pw_len = 0
     THEN UNCHANGED <<auth_state, checker, pwV, g_submits>>
     ELSE /\ auth_state' = "VALIDATING"
          /\ checker' = [checker EXCEPT !.request = TRUE]
          /\ Store(password_clear(Password), "clear")
          /\ g_submits' = g_submits + 1
  /\ UNCHANGED <<connV, progV, sessV, failed_attempts, argsV, surfV, budget,
                 sigV, revents, gSurfV, gLockV, g_positive, g_term,
                 g_negative, gReadyV>>

\* submit that sends an empty secret whatever the policy says
submit_sends_empty ==
  /\ Dispatching
  /\ HasFocus
  /\ IF auth_state = "VALIDATING"
     THEN UNCHANGED <<auth_state, checker, pwV, g_submits>>
     ELSE /\ auth_state' = "VALIDATING"
          /\ checker' = [checker EXCEPT !.request = TRUE]
          /\ Store(password_clear(Password), "clear")
          /\ g_submits' = g_submits + 1
  /\ UNCHANGED <<connV, progV, sessV, failed_attempts, argsV, surfV, budget,
                 sigV, revents, gSurfV, gLockV, g_positive, g_term,
                 g_negative, gReadyV>>

\* submit: an empty secret is dropped under ignore_empty, a submit while a
\* verdict is awaited is rejected, otherwise the request is written to the
\* checker and the buffer is cleared
submit ==
  /\ Dispatching
  /\ HasFocus
  /\ IF (ignore_empty /\ pw_len = 0) \/ auth_state = "VALIDATING"
     THEN UNCHANGED <<auth_state, checker, pwV, g_submits>>
     ELSE /\ auth_state' = "VALIDATING"
          /\ checker' = [checker EXCEPT !.request = TRUE]
          /\ Store(password_clear(Password), "clear")
          /\ g_submits' = g_submits + 1
  /\ UNCHANGED <<connV, progV, sessV, failed_attempts, argsV, surfV, budget, sigV,
                 revents, gSurfV, gLockV, g_positive, g_term, g_negative,
                 gReadyV>>

\* ------------------------------------------------------ checker subprocess
checker_reply(verdict) ==
  /\ Alive
  /\ checker.alive
  /\ checker.request
  /\ checker.reply = "none"
  /\ verdict = "bad" => failed_attempts < MaxAttempts
  /\ checker' = [checker EXCEPT !.request = FALSE, !.reply = verdict]
  /\ UNCHANGED <<connV, progV, sessV, failed_attempts, auth_state, pwV, argsV,
                 surfV, budget, sigV, revents, gSurfV, gLockV, gAuthV, gReadyV>>

checker_crash ==
  /\ Alive
  /\ budget > 0
  /\ budget' = budget - 1
  /\ checker.alive
  /\ checker' = [checker EXCEPT !.alive = FALSE]
  /\ UNCHANGED <<connV, progV, sessV, failed_attempts, auth_state, pwV, argsV,
                 surfV, sigV, revents, gSurfV, gLockV, gAuthV, gReadyV>>

\* ---------------------------------------------------------------- signals
\* a handler that returns without writing to the self-pipe
do_sigusr_writes_nothing ==
  /\ Alive
  /\ budget > 0
  /\ budget' = budget - 1
  /\ g_sig_locked' = (g_sig_locked \/ locked)
  /\ g_sigs' = g_sigs + 1
  /\ IF handler = "do_sigusr"
     THEN UNCHANGED <<progV, sigusr_pipe>>
     ELSE /\ pc' = "killed"
          /\ g_cause' = "SIGUSR1"
          /\ UNCHANGED <<exit_status, sigusr_pipe>>
  /\ UNCHANGED <<connV, sessV, authV, argsV, surfV, handler, loop_fds, revents,
                 gSurfV, gLockV, gAuthV, gReadyV>>

\* SIGUSR1 is delivered: do_sigusr writes one byte to the non-blocking
\* self-pipe, and the write is dropped (EAGAIN, result ignored) when the pipe
\* is full; before sigaction the default disposition ends the process.
do_sigusr ==
  /\ Alive
  /\ budget > 0
  /\ budget' = budget - 1
  /\ g_sig_locked' = (g_sig_locked \/ locked)
  /\ g_sigs' = g_sigs + 1
  /\ IF handler = "do_sigusr"
     THEN /\ sigusr_pipe' = IF sigusr_pipe < PipeCap THEN sigusr_pipe + 1
                                                     ELSE sigusr_pipe
          /\ UNCHANGED progV
     ELSE /\ pc' = "killed"
          /\ g_cause' = "SIGUSR1"
          /\ UNCHANGED <<exit_status, sigusr_pipe>>
  /\ UNCHANGED <<connV, sessV, authV, argsV, surfV, handler, loop_fds, revents,
                 gSurfV, gLockV, gAuthV, gReadyV>>

\* ------------------------------------------------------------------ main
\* the first wl_display_roundtrip fails
roundtrip1_fail ==
  /\ pc = "roundtrip1"
  /\ Exit(EXIT_FAILURE, "roundtrip1")
  /\ UNCHANGED <<connV, sessV, authV, argsV, surfV, budget, sigV, revents,
                 gSurfV, gLockV, gAuthV, gReadyV>>

\* the four checks of the mandatory globals
MissingGlobal_without_shm == \E i \in Mandatory \ {"wl_shm"} : i \notin globals

MissingGlobal == \E i \in Mandatory : i \notin globals

\* the first round trip returns: the mandatory globals are checked and the
\* lock request is sent
request_lock ==
  /\ pc = "roundtrip1"
  /\ IF MissingGlobal
     THEN /\ Exit(EXIT_MISSING_GLOBAL, "missing_global")
          /\ UNCHANGED <<lock_obj, g_lock_reqs, sync_wait>>
     ELSE /\ lock_obj' = "live"
          /\ g_lock_reqs' = g_lock_reqs + 1
          /\ sync_wait' = Undescribed
          /\ pc' = "roundtrip2"
          /\ UNCHANGED <<exit_status, g_cause>>
  /\ UNCHANGED <<connV, globals, locked, run_display, authV, argsV, surfaces,
                 announced, next_serial, budget, sigV, revents, gSurfV,
                 g_finished, g_denied, g_unlocks, g_roundtrips, gAuthV,
                 gReadyV>>

\* the second wl_display_roundtrip fails
roundtrip2_fail ==
  /\ pc = "roundtrip2"
  /\ Exit(EXIT_ROUNDTRIP2, "roundtrip2")
  /\ UNCHANGED <<connV, sessV, authV, argsV, surfV, budget, sigV, revents,
                 gSurfV, gLockV, gAuthV, gReadyV>>

\* the second round trip returns (the server has answered every request
\* sent before the sync): create_surface for every surface of the list
create_surfaces ==
  /\ pc = "roundtrip2"
  /\ sync_wait = {}
  /\ surfaces' = [o \in Outputs |->
                    IF Live(o) THEN create_surface(surfaces[o])
                    ELSE surfaces[o]]
  /\ g_gls' = [o \in Outputs |-> IF Live(o) THEN g_gls[o] + 1 ELSE g_gls[o]]
  /\ pc' = "await_lock"
  /\ UNCHANGED <<connV, exit_status, g_cause, sessV, authV, argsV, announced,
                 sync_wait, next_serial, budget, sigV, revents, g_done,
                 g_recv, g_acked, g_conf, gLockV, gAuthV, gReadyV>>

\* while (!state.locked): test of the loop condition
await_lock_without_wait ==
  /\ pc = "await_lock"
  /\ pc' = "ready"
  /\ UNCHANGED <<connV, exit_status, g_cause, sessV, authV, argsV, surfV, budget,
                 sigV, revents, gSurfV, gLockV, gAuthV, gReadyV>>

\* while (!state.locked): the test, then wl_display_dispatch, which sends the
\* buffered requests before it waits for events
await_lock ==
  /\ pc = "await_lock"
  /\ pc' = IF locked THEN "ready" ELSE "dispatch_lock"
  /\ unflushed' = IF ~locked /\ conn = "up" THEN {} ELSE unflushed
  /\ UNCHANGED <<conn, exit_status, g_cause, sessV, authV, argsV, surfV, budget,
                 sigV, revents, gSurfV, gLockV, gAuthV, gReadyV>>

\* wl_display_dispatch of the waiting loop returns
dispatch_lock_return(ok) ==
  /\ pc = "dispatch_lock"
  /\ IF ok
     THEN /\ pc' = "await_lock"
          /\ UNCHANGED <<exit_status, g_cause>>
     ELSE Exit(EXIT_DISPATCH, "dispatch")
  /\ UNCHANGED <<connV, sessV, authV, argsV, surfV, budget, sigV, revents,
                 gSurfV, gLockV, gAuthV, gReadyV>>

\* readiness notification: one byte, then close
notify_ready_ignores_failure(ok) ==
  /\ pc = "ready"
  /\ pc' = "daemonize"
  /\ IF ready_fd >= 0
     THEN /\ g_ready_tried' = TRUE
          /\ IF ok
             THEN /\ g_ready_bytes' = g_ready_bytes + 1
                  /\ g_ready_closed' = TRUE
                  /\ ready_fd' = READY_FD_DEFAULT
             ELSE UNCHANGED <<g_ready_bytes, g_ready_closed, ready_fd>>
     ELSE UNCHANGED <<g_ready_tried, g_ready_bytes, g_ready_closed, ready_fd>>
  /\ UNCHANGED <<connV, exit_status, g_cause, sessV, authV, daemonize_arg,
                 ignore_empty, imgV, cfgV, surfV, budget, sigV, revents, gSurfV,
                 gLockV,
                 gAuthV, g_ready_given, g_daemonized>>

notify_ready(ok) ==
  /\ pc = "ready"
  /\ IF ready_fd >= 0
     THEN /\ g_ready_tried' = TRUE
          /\ IF ok
             THEN /\ g_ready_bytes' = g_ready_bytes + 1
                  /\ g_ready_closed' = TRUE
                  /\ ready_fd' = READY_FD_DEFAULT
                  /\ pc' = "daemonize"
                  /\ UNCHANGED <<exit_status, g_cause>>
             ELSE /\ Exit(EXIT_READY, "ready_write")
                  /\ UNCHANGED <<g_ready_bytes, g_ready_closed, ready_fd>>
     ELSE /\ pc' = "daemonize"
          /\ UNCHANGED <<exit_status, g_cause, g_ready_tried, g_ready_bytes,
                         g_ready_closed, ready_fd>>
  /\ UNCHANGED <<connV, sessV, authV, daemonize_arg, ignore_empty, imgV, cfgV, surfV,
                 budget, sigV,
                 revents, gSurfV, gLockV, gAuthV, g_ready_given,
                 g_daemonized>>

\* daemonize(): fork; the foreground process exits 0 once the child reports
\* success, and the child carries on
daemonize(ok) ==
  /\ pc = "daemonize"
  /\ IF daemonize_arg
     THEN IF ok
          THEN /\ g_daemonized' = TRUE
               /\ pc' = "add_fds"
               /\ UNCHANGED <<exit_status, g_cause>>
          ELSE /\ Exit(EXIT_DAEMONIZE, "daemonize")
               /\ UNCHANGED g_daemonized
     ELSE /\ pc' = "add_fds"
          /\ UNCHANGED <<exit_status, g_cause, g_daemonized>>
  /\ UNCHANGED <<connV, sessV, authV, argsV, surfV, budget, sigV, revents, gSurfV, gLockV,
                 gAuthV, g_ready_bytes, g_ready_given, g_ready_closed,
                 g_ready_tried>>

\* the three loop_add_fd: display_in, comm_in and term_in, in this order
add_fds ==
  /\ pc = "add_fds"
  /\ loop_fds' = {"display_in", "comm_in", "term_in"}
  /\ pc' = "sigaction"
  /\ UNCHANGED <<connV, exit_status, g_cause, sessV, authV, argsV, surfV, budget,
                 sigusr_pipe, handler, g_sig_locked, g_sigs, revents, gSurfV,
                 gLockV, gAuthV, gReadyV>>

\* sigaction(SIGUSR1, do_sigusr)
install_handler ==
  /\ pc = "sigaction"
  /\ handler' = "do_sigusr"
  /\ pc' = "setup"
  /\ UNCHANGED <<connV, exit_status, g_cause, sessV, authV, argsV, surfV, budget,
                 sigusr_pipe, loop_fds, g_sig_locked, g_sigs, revents, gSurfV,
                 gLockV, gAuthV, gReadyV>>

\* state.run_display = true
start_loop ==
  /\ pc = "setup"
  /\ run_display' = TRUE
  /\ pc' = "loop_head"
  /\ UNCHANGED <<connV, exit_status, g_cause, globals, lock_obj, locked, authV,
                 argsV, surfV, budget, sigV, revents, gSurfV, gLockV, gAuthV,
                 gReadyV>>

\* ext_session_lock_v1_unlock_and_destroy, then the last round trip
unlock_and_destroy ==
  /\ lock_obj' = "destroyed"
  /\ g_unlocks' = g_unlocks + 1
  /\ pc' = "final_roundtrip"

\* results of wl_display_flush: everything was sent, the socket is full, the
\* server closed the connection, any other error
Flush == {"ok", "EAGAIN", "EPIPE", "EIO"}

\* while (state.run_display): the test and wl_display_flush; leaving the
\* loop (test false, or flush failed with an error other than EAGAIN) goes
\* on to unlock_and_destroy.  The round trip that follows flushes too.
main_loop(flush) ==
  /\ pc = "loop_head"
  /\ IF ~run_display
     THEN /\ unlock_and_destroy
          /\ unflushed' = IF conn = "up" THEN {} ELSE unflushed
          /\ UNCHANGED conn
     ELSE IF flush \in {"ok", "EAGAIN"}
          THEN /\ pc' = "poll"
               /\ unflushed' = IF flush = "ok" THEN {} ELSE unflushed
               /\ UNCHANGED <<lock_obj, g_unlocks, conn>>
          ELSE /\ unlock_and_destroy
               /\ conn' = IF flush = "EPIPE" THEN "epipe" ELSE "dead"
               /\ UNCHANGED unflushed
  /\ UNCHANGED <<exit_status, g_cause, globals, locked, run_display, authV,
                 argsV, surfV, budget, sigV, revents, gSurfV, g_finished,
                 g_denied, g_lock_reqs, g_roundtrips, gAuthV, gReadyV>>

\* readiness of the checker's reply fd as poll reports it
CommMask ==
  (IF checker.reply # "none" THEN {"POLLIN"} ELSE {})
    \cup (IF checker.alive THEN {} ELSE {"POLLHUP"})

\* loop_poll: poll() returns with what is ready; the callbacks then run in
\* the order the fds were added: display_in, comm_in, term_in
loop_poll(display_ready) ==
  /\ pc = "poll"
  /\ display_ready \/ CommMask # {} \/ sigusr_pipe > 0
  /\ revents' = [comm |-> CommMask, term |-> sigusr_pipe > 0]
  /\ pc' = IF display_ready THEN "display_in" ELSE "cb_comm"
  /\ UNCHANGED <<connV, exit_status, g_cause, sessV, authV, argsV, surfV, budget, sigV,
                 gSurfV, gLockV, gAuthV, gReadyV>>

\* display_in: wl_display_dispatch returns
display_in(ok) ==
  /\ pc = "display_in"
  /\ run_display' = IF ok THEN run_display ELSE FALSE
  /\ conn' = IF ok THEN conn ELSE "dead"
  /\ UNCHANGED unflushed
  /\ pc' = "cb_comm"
  /\ UNCHANGED <<exit_status, g_cause, globals, lock_obj, locked, authV,
                 argsV, surfV, budget, sigV, revents, gSurfV, g_finished,
                 g_denied, g_lock_reqs, g_unlocks, g_roundtrips, gAuthV,
                 gReadyV>>

\* loop_poll passes over an fd that reported nothing
loop_skip ==
  /\ \/ /\ pc = "cb_comm"
        /\ revents.comm = {}
        /\ pc' = "cb_term"
     \/ /\ pc = "cb_term"
        /\ ~revents.term
        /\ pc' = "loop_head"
  /\ UNCHANGED <<connV, exit_status, g_cause, sessV, authV, argsV, surfV, budget,
                 sigV, revents, gSurfV, gLockV, gAuthV, gReadyV>>

\* comm_in, authentication succeeded: the main loop is told to stop
positive_verdict_resets_counter ==
  /\ run_display' = FALSE
  /\ g_positive' = TRUE
  /\ failed_attempts' = 0
  /\ UNCHANGED <<auth_state, surfaces, g_negative>>

positive_verdict ==
  /\ run_display' = FALSE
  /\ g_positive' = TRUE
  /\ UNCHANGED <<auth_state, failed_attempts, surfaces, g_negative>>

\* comm_in, authentication failed
negative_verdict_without_damage ==
  /\ auth_state' = "INVALID"
  /\ failed_attempts' = failed_attempts + 1
  /\ g_negative' = g_negative + 1
  /\ UNCHANGED <<surfaces, run_display, g_positive>>

\* a negative verdict that sets the loop going again
negative_verdict_restarts_display ==
  /\ auth_state' = "INVALID"
  /\ failed_attempts' = failed_attempts + 1
  /\ g_negative' = g_negative + 1
  /\ damage_state
  /\ run_display' = TRUE
  /\ UNCHANGED g_positive

negative_verdict ==
  /\ auth_state' = "INVALID"
  /\ failed_attempts' = failed_attempts + 1
  /\ g_negative' = g_negative + 1
  /\ damage_state
  /\ UNCHANGED <<run_display, g_positive>>

\* comm_in, the reply could not be read or the reply fd hung up: exit
channel_broken_stops_loop(cause) ==
  /\ run_display' = FALSE
  /\ g_cause' = cause
  /\ pc' = "cb_term"
  /\ UNCHANGED <<exit_status, auth_state, failed_attempts, checker,
                 surfaces, gAuthV>>

channel_broken(cause) ==
  /\ Exit(EXIT_FAILURE, cause)
  /\ UNCHANGED <<run_display, auth_state, failed_attempts, checker,
                 surfaces, gAuthV>>

\* comm_in that tests the hang-up before the readable data
comm_in_hup_first(read_ok) ==
  /\ pc = "cb_comm"
  /\ revents.comm # {}
  /\ revents' = [revents EXCEPT !.comm = {}]
  /\ IF "POLLHUP" \in revents.comm
     THEN channel_broken("comm_hup")
     ELSE IF ~read_ok
          THEN channel_broken("comm_read")
          ELSE /\ checker' = [checker EXCEPT !.reply = "none"]
               /\ pc' = "cb_term"
               /\ UNCHANGED <<exit_status, g_cause, g_term, g_submits>>
               /\ IF checker.reply = "ok"
                  THEN positive_verdict
                  ELSE negative_verdict
  /\ UNCHANGED <<connV, globals, lock_obj, locked, pwV, argsV, announced,
                 sync_wait, next_serial, budget, sigV, g_done, g_gls,
                 g_recv, g_acked, g_conf, gLockV, gReadyV>>

\* comm_in that acts on the verdict and leaves the reply in the pipe
comm_in_keeps_reply(read_ok) ==
  /\ pc = "cb_comm"
  /\ revents.comm # {}
  /\ revents' = [revents EXCEPT !.comm = {}]
  /\ IF "POLLIN" \in revents.comm
     THEN IF ~read_ok
          THEN channel_broken("comm_read")
          ELSE /\ UNCHANGED checker
               /\ pc' = "cb_term"
               /\ UNCHANGED <<exit_status, g_cause, g_term, g_submits>>
               /\ IF checker.reply = "ok"
                  THEN positive_verdict
                  ELSE negative_verdict
     ELSE channel_broken("comm_hup")
  /\ UNCHANGED <<connV, globals, lock_obj, locked, pwV, argsV, announced,
                 sync_wait, next_serial, budget, sigV, g_done, g_gls,
                 g_recv, g_acked, g_conf, gLockV, gReadyV>>

\* comm_in(fd, mask): read_ok is the result of read_comm_reply.  The mask is
\* the one poll reported; it is spent once the callback has run.
comm_in(read_ok) ==
  /\ pc = "cb_comm"
  /\ revents.comm # {}
  /\ revents' = [revents EXCEPT !.comm = {}]
  /\ IF "POLLIN" \in revents.comm
     THEN IF ~read_ok
          THEN channel_broken("comm_read")
          ELSE /\ checker' = [checker EXCEPT !.reply = "none"]
               /\ pc' = "cb_term"
               /\ UNCHANGED <<exit_status, g_cause, g_term, g_submits>>
               /\ IF checker.reply = "ok"
                  THEN positive_verdict
                  ELSE negative_verdict
     ELSE channel_broken("comm_hup")
  /\ UNCHANGED <<connV, globals, lock_obj, locked, pwV, argsV, announced,
                 sync_wait, next_serial, budget, sigV, g_done, g_gls,
                 g_recv, g_acked, g_conf, gLockV, gReadyV>>

term_in ==
  /\ pc = "cb_term"
  /\ revents.term
  /\ revents' = [revents EXCEPT !.term = FALSE]
  /\ run_display' = FALSE
  /\ g_term' = TRUE
  /\ pc' = "loop_head"
  /\ UNCHANGED <<connV, exit_status, g_cause, globals, lock_obj, locked, authV,
                 argsV, surfV, budget, sigV, gSurfV, gLockV, g_positive,
                 g_negative, g_submits, gReadyV>>

\* the last wl_display_roundtrip returns (its result is ignored), return 0
finish ==
  /\ pc = "final_roundtrip"
  /\ g_roundtrips' = g_roundtrips + 1
  /\ Exit(EXIT_OK, "clean")
  /\ UNCHANGED <<connV, sessV, authV, argsV, surfV, budget, sigV, revents, gSurfV,
                 g_finished, g_denied, g_lock_reqs, g_unlocks, gAuthV,
                 gReadyV>>

\* ------------------------------------------------------------- behaviour
Next ==
  \/ \E i \in Mandatory : handle_global(OtherName, i)
  \/ \E o \in Outputs : handle_global(o, "wl_output")
  \/ \E n \in Outputs \cup {OtherName} : handle_global_remove(n)
  \/ \E o \in Outputs : handle_wl_output_done(o)
  \/ \E o \in Outputs, f \in Scales : handle_wl_output_scale(o, f)
  \/ \E o \in Outputs, sp \in Subpixels : handle_wl_output_geometry(o, sp)
  \/ \E o \in Outputs, sz \in Sizes : handle_configure(o, sz[1], sz[2])
  \/ handle_locked
  \/ handle_finished
  \/ key_append
  \/ submit
  \/ \E v \in {"ok", "bad"} : checker_reply(v)
  \/ checker_crash
  \/ do_sigusr
  \/ roundtrip1_fail
  \/ request_lock
  \/ roundtrip2_fail
  \/ create_surfaces
  \/ await_lock
  \/ \E ok \in BOOLEAN : dispatch_lock_return(ok)
  \/ \E ok \in BOOLEAN : notify_ready(ok)
  \/ \E ok \in BOOLEAN : daemonize(ok)
  \/ add_fds
  \/ install_handler
  \/ start_loop
  \/ \E f \in Flush : main_loop(f)
  \/ \E d \in BOOLEAN : loop_poll(d)
  \/ \E ok \in BOOLEAN : display_in(ok)
  \/ loop_skip
  \/ \E ok \in BOOLEAN : comm_in(ok)
  \/ term_in
  \/ finish

Spec == Init /\ [][Next]_vars

\* ------------------------------------------- the password buffer alone
\* Every sequence of operations on the buffer, from the buffer main creates.
otherV == <<progV, sessV, failed_attempts, auth_state, checker, argsV, surfV,
            budget, connV, sigV, revents, gSurfV, gLockV, gAuthV, gReadyV>>

buffer_append(ch) ==
  /\ Store(password_append(Password, ch),
           IF pw_len + Len(ch) > MaxBufferLen THEN "refused" ELSE "append")
  /\ UNCHANGED otherV

buffer_delete_last_char(wipe) ==
  /\ Store(password_delete_last_char(Password, wipe), "delete")
  /\ UNCHANGED otherV

buffer_clear ==
  /\ Store(password_clear(Password), "clear")
  /\ UNCHANGED otherV

NextBuf ==
  \/ \E ch \in Chars : buffer_append(ch)
  \/ \E wipe \in BOOLEAN : buffer_delete_last_char(wipe)
  \/ buffer_clear

SpecBuf == Init /\ [][NextBuf]_vars

\* ------------------------------------------------------ background images
\* Every sequence of --image options, then the selection for a surface.
imgOtherV == <<progV, sessV, authV, ready_fd, daemonize_arg, ignore_empty, cfgV, surfV,
               budget, connV, sigV, revents, gSurfV, gLockV, gAuthV, gReadyV>>

\* the character ':' of an --image argument
COLON == 9

\* --image arguments [[<output>]:]<path>: output names over the characters
\* 1 and 2, one-character paths 4 and 5
Args ==
  {pre \o <<path>> : pre \in {<<>>, <<COLON>>, <<1, COLON>>, <<2, COLON>>,
                               <<1, 2, COLON>>},
                     path \in {4, 5}}

\* what surface->output_name can hold when create_surface runs: nothing yet,
\* or the string of the wl_output name event
SurfaceNames == {NULL, <<>>, <<1>>, <<2>>, <<1, 2>>, <<2, 1>>}

\* strcmp, reduced to the sign of its result
RECURSIVE strcmp(_, _)
strcmp(a, b) ==
  IF a = <<>> /\ b = <<>> THEN 0
  ELSE IF a = <<>> THEN 0 - 1
  ELSE IF b = <<>> THEN 1
  ELSE IF Head(a) < Head(b) THEN 0 - 1
  ELSE IF Head(a) > Head(b) THEN 1
  ELSE strcmp(Tail(a), Tail(b))

\* a comparison in which a null pointer equals any name
lenient_strcmp_null_matches(a, b) ==
  IF a = NULL \/ b = NULL THEN 0
  ELSE strcmp(a, b)

\* lenient_strcmp: the names compared are separate copies (strdup), so the
\* pointers are equal only when both are null
lenient_strcmp(a, b) ==
  IF a = NULL /\ b = NULL THEN 0
  ELSE IF a = NULL THEN 0 - 1
  ELSE IF b = NULL THEN 1
  ELSE strcmp(a, b)

\* strchr: the index of the first c in arg, 0 if there is none
strchr(arg, c) ==
  LET at == {i \in 1 .. Len(arg) : arg[i] = c}
  IN  IF at = {} THEN 0 ELSE CHOOSE i \in at : \A j \in at : i <= j

\* the list without its first record whose name compares equal to name
RECURSIVE remove_image(_, _)
remove_image(list, name) ==
  IF list = <<>> THEN <<>>
  ELSE IF lenient_strcmp(Head(list).output_name, name) = 0 THEN Tail(list)
  ELSE <<Head(list)>> \o remove_image(Tail(list), name)

\* the walk of select_image from a position of the list on
RECURSIVE select_from(_, _, _)
select_from(list, name, default_image) ==
  IF list = <<>> THEN default_image
  ELSE IF lenient_strcmp(Head(list).output_name, name) = 0
       THEN Head(list).cairo_surface
  ELSE IF Head(list).output_name = NULL
       THEN select_from(Tail(list), name, Head(list).cairo_surface)
  ELSE select_from(Tail(list), name, default_image)

select_image(list, name) == select_from(list, name, NoImage)

\* load_image(arg, state); loaded is whether load_background_image returned
\* a surface.  An image already registered under the name is dropped before
\* the file is read.
load_image(arg, loaded) ==
  /\ ~img_surface.selected
  /\ g_loads < MaxLoads
  /\ g_loads' = g_loads + 1
  /\ LET separator == strchr(arg, COLON)
         output_name == IF separator <= 1 THEN NULL
                        ELSE SubSeq(arg, 1, separator - 1)
         path == SubSeq(arg, separator + 1, Len(arg))
         image == [output_name |-> output_name, path |-> path,
                   cairo_surface |-> g_loads + 1]
         rest == remove_image(images, output_name)
     IN  images' = IF loaded THEN <<image>> \o rest ELSE rest
  /\ UNCHANGED <<img_surface, imgOtherV>>

\* surface->image = select_image(state, surface) of create_surface
set_surface_image(name) ==
  /\ img_surface' = [output_name |-> name, image |-> select_image(images, name),
                     selected |-> TRUE]
  /\ UNCHANGED <<images, g_loads, imgOtherV>>

NextImg ==
  \/ \E arg \in Args, loaded \in BOOLEAN : load_image(arg, loaded)
  \/ \E name \in SurfaceNames : set_surface_image(name)

SpecImg == Init /\ [][NextImg]_vars

\* ------------------------------------------------------- the config file
\* Every config file of up to MaxLines lines, read by load_config.
\* A line is long-option or long-option=value: the option name, then the
\* value if there is one.  <<>> is an empty line, "#" starts a comment.
Lines ==
  {<<>>, <<"#">>, <<"scaling", "fit">>, <<"scaling", "center">>,
   <<"scaling", "bogus">>, <<"scaling">>, <<"tiling">>,
   <<"ignore-empty-password">>, <<"no-such-option">>}

\* the scaling modes and the enum values they stand for
ScalingModes ==
  [stretch |-> "STRETCH", fill |-> BACKGROUND_MODE_FILL, fit |-> "FIT",
   center |-> "CENTER", tile |-> BACKGROUND_MODE_TILE,
   solid_color |-> "SOLID_COLOR"]

parse_background_mode(optarg) ==
  IF optarg \in DOMAIN ScalingModes THEN ScalingModes[optarg]
  ELSE BACKGROUND_MODE_INVALID

\* parse_options(2, {"swaylock", "--<line>"}, state, ...): the settings after
\* the call and its result.  The scaling mode is stored before it is checked.
parse_options(args, line) ==
  IF line[1] = "scaling" /\ Len(line) = 2
  THEN LET mode == parse_background_mode(line[2])
       IN  [args |-> [args EXCEPT !.mode = mode],
            result |-> IF mode = BACKGROUND_MODE_INVALID THEN 1 ELSE 0]
  ELSE IF line[1] = "tiling" /\ Len(line) = 1
  THEN [args |-> [args EXCEPT !.mode = BACKGROUND_MODE_TILE], result |-> 0]
  ELSE IF line[1] = "ignore-empty-password" /\ Len(line) = 1
  THEN [args |-> [args EXCEPT !.ignore_empty = TRUE], result |-> 0]
  ELSE [args |-> args, result |-> 1]

cfgOtherV == <<progV, sessV, authV, ready_fd, daemonize_arg, imgV, surfV, budget,
               connV, sigV, revents, gSurfV, gLockV, gAuthV, gReadyV>>

\* fopen(path, "r"); a file that cannot be opened is logged and passed over
load_config_open(ok) ==
  /\ config = "unread"
  /\ config' = IF ok THEN "reading" ELSE "failed"
  /\ UNCHANGED <<args_mode, ignore_empty, line_number, cfgOtherV>>

\* one round of the getline loop
load_config_line(line) ==
  /\ config = "reading"
  /\ line_number < MaxLines
  /\ line_number' = line_number + 1
  /\ IF line = <<>> \/ line[1] = "#"
     THEN UNCHANGED <<args_mode, ignore_empty, config>>
     ELSE LET parsed == parse_options([mode |-> args_mode,
                                       ignore_empty |-> ignore_empty], line)
          IN  /\ args_mode' = parsed.args.mode
              /\ ignore_empty' = parsed.args.ignore_empty
              /\ config' = IF parsed.result # 0 THEN "break" ELSE "reading"
  /\ UNCHANGED cfgOtherV

\* getline returns -1
load_config_eof ==
  /\ config = "reading"
  /\ config' = "eof"
  /\ UNCHANGED <<args_mode, ignore_empty, line_number, cfgOtherV>>

\* fclose and return 0: main goes on with the command line
load_config_return ==
  /\ config \in {"failed", "break", "eof"}
  /\ config' = "returned"
  /\ UNCHANGED <<args_mode, ignore_empty, line_number, cfgOtherV>>

NextCfg ==
  \/ \E ok \in BOOLEAN : load_config_open(ok)
  \/ \E line \in Lines : load_config_line(line)
  \/ load_config_eof
  \/ load_config_return

SpecCfg == Init /\ [][NextCfg]_vars

\* ================================================================ claims
Ended == pc \in {"exited", "killed"}

InMainLoop == pc \in {"loop_head", "poll", "display_in", "cb_comm", "cb_term"}

\* C1: a `finished` event dispatched while the lock object exists ends the
\* process at once with status 2; from then on `locked` does not change, no
\* unlock_and_destroy and no other protocol request (lock, get_lock_surface,
\* ack_configure, round trip) is issued.
C1_FinishedIsFatal ==
  /\ [](g_finished => pc = "exited" /\ exit_status = EXIT_FINISHED)
  /\ [][g_finished =>
          UNCHANGED <<locked, lock_obj, g_unlocks, g_lock_reqs, g_gls,
                      g_acked, g_roundtrips, surfaces>>]_vars

\* the lock is revoked after `locked`, while the main loop runs
C1_Witness == g_finished /\ locked /\ run_display /\ g_cause = "finished"

\* C2: unlock_and_destroy is issued only after a positive verdict was read
\* or the termination byte was seen by term_in.
C2_UnlockOnlyOnVerdictOrSignal == g_unlocks > 0 => (g_positive \/ g_term)

\* C3: once comm_in finds the channel broken (read_comm_reply failed, or
\* hang-up without data) the process has exited with EXIT_FAILURE and no
\* unlock_and_destroy was ever issued: the lock object is still held.
C3_ChannelBreakIsFatal ==
  g_cause \in {"comm_read", "comm_hup"} =>
    /\ pc = "exited"
    /\ exit_status = EXIT_FAILURE
    /\ g_unlocks = 0
    /\ lock_obj = "live"

\* the checker crashed while the session was locked
C3_Witness == g_cause = "comm_hup" /\ locked /\ ~checker.alive

\* C4 as stated: with a readiness descriptor, every run that reaches the
\* readiness notification writes exactly one byte to it.
C4_ExactlyOneByte ==
  (g_ready_given /\ g_ready_tried) => g_ready_bytes = 1

\* C4 (amended): at most one byte is ever written to the readiness
\* descriptor, only after `locked`, only if a descriptor was supplied, and
\* with the write the descriptor is closed and forgotten; every run that gets
\* past the readiness step with a descriptor has written exactly one byte; a
\* failed write writes nothing and ends the run with status 2.
C4_ReadyByte ==
  /\ g_ready_bytes \in {0, 1}
  /\ g_ready_bytes = 1 =>
       g_ready_given /\ locked /\ g_ready_closed /\ ready_fd = READY_FD_DEFAULT
  /\ g_ready_closed => g_ready_bytes = 1
  /\ ~g_ready_given => g_ready_bytes = 0 /\ ~g_ready_tried
  /\ ~locked => ~g_ready_tried
  /\ (g_ready_given /\ (InMainLoop \/ pc \in {"daemonize", "add_fds", "sigaction", "setup",
                                             "final_roundtrip"}))
       => g_ready_bytes = 1
  /\ (g_ready_tried /\ g_ready_bytes = 0) =>
       pc = "exited" /\ exit_status = EXIT_READY /\ g_cause = "ready_write"

\* the byte was written and the run went on to its clean end
C4_Witness == g_ready_bytes = 1 /\ g_ready_closed /\ g_cause = "clean"

\* C5: daemonize() forks only when the lock is confirmed and the readiness
\* byte, if one was asked for, has been written; never after a denied lock or
\* a failed readiness write.
C5_DaemonizeAfterLock ==
  g_daemonized =>
    /\ locked
    /\ ~g_denied
    /\ g_ready_given => (g_ready_bytes = 1 /\ g_ready_closed)
    /\ g_cause # "ready_write"

\* daemonized after a successful readiness write
C5_Witness == g_daemonized /\ g_ready_given /\ g_ready_bytes = 1

\* C6: the lock request is sent only with all four mandatory globals bound;
\* a run that misses one ends with a non-zero status, with no lock request
\* and no lock surface.
C6_LockNeedsGlobals ==
  /\ g_lock_reqs > 0 => Mandatory \subseteq globals
  /\ ~(Mandatory \subseteq globals) =>
       /\ pc \in {"roundtrip1", "exited", "killed"}
       /\ pc = "exited" => exit_status # EXIT_OK
       /\ g_lock_reqs = 0
       /\ lock_obj = "none"
       /\ \A o \in Outputs : g_gls[o] = 0 /\ ~surfaces[o].created

\* startup stopped for a missing global although an output was announced
C6_Witness ==
  /\ g_cause = "missing_global"
  /\ Cardinality(globals) = 3
  /\ \E o \in Outputs : Live(o)

\* C7: a run in which SIGUSR1 was delivered while state.locked ends with
\* unlock_and_destroy issued and exit status 0.
C7_SignalUnlocks ==
  (g_sig_locked /\ Ended) =>
    pc = "exited" /\ exit_status = EXIT_OK /\ g_unlocks = 1

\* C8: failed_attempts equals the number of negative verdicts read so far;
\* once a positive verdict is read the counter keeps that value, the main
\* loop is told to stop and the run ends with unlock_and_destroy, status 0.
C8_FailedAttemptsCount ==
  /\ failed_attempts = g_negative
  /\ (g_positive /\ InMainLoop) => ~run_display
  /\ (g_positive /\ Ended) =>
       pc = "exited" /\ exit_status = EXIT_OK /\ g_unlocks = 1

\* MaxAttempts negative verdicts, then a positive one, then the unlock
C8_Witness ==
  g_positive /\ failed_attempts = MaxAttempts /\ g_unlocks = 1 /\ MaxAttempts > 1

\* C9: reading a negative verdict leaves run_display as it was and issues no
\* unlock; it sets auth_state to INVALID, marks every surface of the list
\* dirty, and the loop goes on to the next callback.
C9_NegativeVerdictRecoverable ==
  [][g_negative' # g_negative =>
       /\ run_display' = run_display
       /\ g_unlocks' = g_unlocks
       /\ lock_obj' = lock_obj
       /\ auth_state' = "INVALID"
       /\ \A o \in Outputs : Live(o) => surfaces'[o].dirty
       /\ pc' = "cb_term"]_vars

\* a positive verdict after a negative one still unlocks
C9_Witness ==
  /\ g_negative > 0
  /\ g_positive
  /\ g_unlocks = 1
  /\ \E o \in Outputs : Live(o) /\ surfaces[o].dirty

\* C10: an output with a created lock surface has received `done`.
C10_SurfaceOnlyAfterDone ==
  \A o \in Outputs : (Live(o) /\ surfaces[o].created) => o \in g_done

\* C11: at most one get_lock_surface request is ever issued for an output: a
\* record with a created surface accounts for exactly one request, a record
\* without one for none while it is in the list, and a `done` dispatched for
\* a created surface issues no request.
C11_CreateOnce ==
  /\ \A o \in Outputs : g_gls[o] <= 1
  /\ \A o \in Outputs :
       Live(o) => (g_gls[o] = IF surfaces[o].created THEN 1 ELSE 0)

\* the main loop dispatches events for an output that has its surface, has
\* received `done` and has acknowledged a configure: a further `done` is due
C11_Witness ==
  /\ pc = "display_in"
  /\ run_display
  /\ \E o \in Outputs :
       /\ Live(o) /\ surfaces[o].created /\ g_gls[o] = 1
       /\ o \in g_done
       /\ g_recv[o] # <<>>

\* C12: while the session is locked and the main loop runs, every output
\* still in the list that has received `done` has a created lock surface.
C12_EveryOutputHasSurface ==
  (locked /\ run_display /\ InMainLoop) =>
    \A o \in Outputs : (Live(o) /\ o \in g_done) => surfaces[o].created

\* C13: the step that withdraws an output removes its record together with
\* its lock surface and leaves the other records as they were; for a
\* withdrawn output no get_lock_surface and no ack_configure is issued any
\* more and no record comes back.
C13_RemovalDestroys ==
  [][\A o \in Outputs :
       /\ (Live(o) /\ ~Live(o)') =>
            /\ surfaces'[o] = NoSurface
            /\ \A p \in Outputs \ {o} : surfaces'[p] = surfaces[p]
            /\ g_acked' = g_acked
            /\ g_gls' = g_gls
       /\ (o \in announced /\ ~Live(o)) =>
            /\ surfaces'[o] = NoSurface
            /\ g_acked'[o] = g_acked[o]
            /\ g_recv'[o] = g_recv[o]
            /\ g_gls'[o] = g_gls[o]]_vars

\* an output was withdrawn after its lock surface was created and before any
\* configure for it was acknowledged, while another output keeps its surface
C13_Witness ==
  \E o \in Outputs :
    /\ o \in announced /\ ~Live(o)
    /\ g_gls[o] = 1 /\ g_recv[o] = <<>>
    /\ \E p \in Outputs \ {o} : Live(p) /\ surfaces[p].created /\ g_acked[p] # <<>>

\* C14: on every surface the serials acknowledged are the serials received,
\* one acknowledgement per configure, in the order of receipt.
C14_AckEchoesSerial ==
  \A o \in Outputs : g_acked[o] = g_recv[o]

\* two configures were received on one surface
C14_Witness ==
  \E o \in Outputs :
    /\ Len(g_recv[o]) = 2
    /\ g_recv[o][1] # g_recv[o][2]
    /\ g_acked[o] = g_recv[o]

\* C15: a process that ends with the status of a finished/denied lock ended
\* because of a `finished` event, and for no other cause.
C15_FinishedStatusDistinct ==
  (pc = "exited" /\ exit_status = EXIT_FINISHED) => g_cause = "finished"

\* C16: a run in which the main loop saw the display connection fail
\* (wl_display_dispatch returned -1 in display_in, or wl_display_flush failed)
\* ends with a non-zero exit status.
C16_DisplayLossIsFatal ==
  (conn # "up" /\ pc = "exited") => exit_status # EXIT_OK

\* C17: the lock request is issued at most once; unlock_and_destroy is issued
\* at most once, on leaving the main loop, and is followed by one round trip
\* and the exit with status 0; a run that ends in any other way has issued no
\* unlock_and_destroy.
C17_LockOnceUnlockOnce ==
  /\ g_lock_reqs <= 1
  /\ g_unlocks <= 1
  /\ g_roundtrips <= g_unlocks
  /\ g_unlocks = 1 => (g_lock_reqs = 1 /\ pc \in {"final_roundtrip", "exited"})
  /\ (pc = "exited" /\ exit_status = EXIT_OK) =>
       (g_unlocks = 1 /\ g_roundtrips = 1)
  /\ (Ended /\ g_unlocks = 1) =>
       (pc = "exited" /\ exit_status = EXIT_OK /\ g_roundtrips = 1)
  /\ (Ended /\ g_cause # "clean") => g_unlocks = 0

\* C18: when the process has exited with status 0, no record of the list
\* holds a created lock surface.
C18_NoSurfaceAtCleanExit ==
  (pc = "exited" /\ exit_status = EXIT_OK) =>
    \A o \in Outputs : ~(Live(o) /\ surfaces[o].created)

\* C19: the step that handles a negative verdict leaves the password buffer
\* empty.
C19_NegativeVerdictClearsBuffer ==
  [][g_negative' # g_negative => pw_len' = 0]_vars

\* C20: the verdicts acted upon never outnumber the requests submitted, and a
\* verdict is acted upon only while a submitted request awaits it.
C20_VerdictNeedsSubmit ==
  /\ [](g_negative + (IF g_positive THEN 1 ELSE 0) <= g_submits)
  /\ [][(g_negative' # g_negative \/ g_positive' # g_positive) =>
          /\ auth_state = "VALIDATING"
          /\ g_negative + (IF g_positive THEN 1 ELSE 0) < g_submits]_vars

\* two requests were submitted and each got its verdict: a negative one, then
\* the positive one
C20_Witness ==
  g_submits = 2 /\ g_negative = 1 /\ g_positive /\ failed_attempts = 1

\* requests written to the checker whose verdict has not been acted upon
Outstanding == g_submits - g_negative - (IF g_positive THEN 1 ELSE 0)

\* C21: at most one request is outstanding; while a verdict is awaited no
\* step writes a request to the checker, and the pending request stays with
\* the checker until the checker answers it.
C21_OneOutstandingRequest ==
  /\ [](Outstanding \in {0, 1})
  /\ []((checker.request \/ checker.reply # "none") => Outstanding = 1)
  /\ [][auth_state = "VALIDATING" =>
          /\ g_submits' = g_submits
          /\ (checker.request /\ ~checker'.request) => checker'.reply # "none"
          /\ checker'.request => checker.request]_vars

\* key events are dispatched while a verdict is awaited and the user has
\* typed again: a submit at this point is the rejected one
C21_Witness ==
  /\ pc = "display_in"
  /\ HasFocus
  /\ auth_state = "VALIDATING"
  /\ checker.request
  /\ pw_len > 0

\* C22: under the ignore-empty policy no step taken with an empty password
\* buffer writes a request to the checker, so an empty secret gets no verdict.
C22_IgnoreEmpty ==
  [][(ignore_empty /\ pw_len = 0) =>
       /\ g_submits' = g_submits
       /\ checker'.request => checker.request
       /\ auth_state' = "VALIDATING" => auth_state = "VALIDATING"]_vars

\* under the policy, after one rejected password the buffer is empty again
\* and key events are dispatched: a submit at this point is the dropped one
C22_Witness ==
  /\ ignore_empty
  /\ pw_len = 0
  /\ pc = "display_in"
  /\ HasFocus
  /\ auth_state = "INVALID"
  /\ g_submits = 1
  /\ ~checker.request

\* C23: after every operation on the password buffer its length is within
\* 0 .. capacity, and after a clear the length is 0 and every byte of the
\* buffer is zero.
C23_BufferBounds ==
  /\ pw_len \in 0 .. MaxBufferLen
  /\ g_pw_op = "clear" =>
       (pw_len = 0 /\ \A i \in 1 .. MaxBufferLen : pw_buffer[i] = 0)

\* a two-byte character was refused by a buffer with one byte left, whose
\* last character had been deleted and left its bytes behind
C23_Witness ==
  /\ g_pw_op = "refused"
  /\ pw_len = MaxBufferLen - 1
  /\ pw_buffer[MaxBufferLen] # 0

\* C24: handling a configure event changes only the configured surface: its
\* width and height become the values the event carries, it is marked dirty,
\* the acknowledgement with the event's serial is sent before the render call,
\* and every other surface record and the lock state stay as they were.
C24_ConfigureFrame ==
  [][g_conf' # g_conf =>
       LET o == g_conf'.output IN
       /\ surfaces'[o] = [surfaces[o] EXCEPT !.width = g_conf'.width,
                                             !.height = g_conf'.height,
                                             !.dirty = TRUE]
       /\ g_recv'[o] = Append(g_recv[o], g_conf'.serial)
       /\ g_acked'[o] = Append(g_acked[o], g_conf'.serial)
       /\ g_conf'.calls = <<"ack_configure", "render">>
       /\ \A p \in Outputs \ {o} :
            /\ surfaces'[p] = surfaces[p]
            /\ g_acked'[p] = g_acked[p]
       /\ UNCHANGED <<lock_obj, locked, run_display, g_gls>>]_vars

\* a configure event was handled for one output while another output's
\* surface, created as well, is still clean
C24_Witness ==
  \E o \in Outputs, p \in Outputs :
    /\ o # p
    /\ g_conf.output = o
    /\ surfaces[o].dirty /\ surfaces[o].width = g_conf.width
    /\ Live(p) /\ surfaces[p].created /\ ~surfaces[p].dirty

\* C25: on every scale or geometry event of an output the new value is
\* recorded, the output's surface is marked dirty, no get_lock_surface request
\* is issued and no surface's `created` flag changes.
C25_ScaleMarksDirty ==
  [][\A o \in Outputs :
       (/\ Live(o) /\ surfaces'[o].exists
        /\ \/ surfaces'[o].scale # surfaces[o].scale
           \/ surfaces'[o].subpixel # surfaces[o].subpixel)
         => /\ surfaces'[o].dirty
            /\ g_gls' = g_gls
            /\ \A p \in Outputs : surfaces'[p].created = surfaces[p].created]_vars

\* C26: the stop flag is monotone.  run_display becomes true only when the
\* main loop starts, which happens once; after a callback has set it to false
\* nothing sets it back, the loop does not poll again, and the next test of
\* the loop condition leaves the loop.
C26_StopFlagMonotone ==
  /\ [][(~run_display /\ run_display') => (pc = "setup" /\ pc' = "loop_head")]_vars
  /\ [][pc' = "setup" => pc \in {"sigaction", "setup"}]_vars
  /\ [][pc' = "sigaction" => pc \in {"add_fds", "sigaction"}]_vars
  /\ [][pc' = "add_fds" => pc \in {"daemonize", "add_fds"}]_vars
  /\ [][pc' = "daemonize" => pc \in {"ready", "daemonize"}]_vars
  /\ [][(pc' = "poll" /\ pc # "poll") => (pc = "loop_head" /\ run_display)]_vars
  /\ [](pc = "poll" => run_display)
  /\ [][(pc = "loop_head" /\ ~run_display /\ pc' # pc)
          => pc' = "final_roundtrip"]_vars

\* wl_display_dispatch failed in this iteration, a negative verdict has been
\* read and term_in is still to run: the flag is false and stays false
C26_Witness ==
  /\ pc = "cb_term"
  /\ revents.term
  /\ conn = "dead"
  /\ ~run_display
  /\ g_negative > 0

\* C27: once the SIGUSR1 handler is installed no signal is missed.  The
\* handler is installed only after term_in is registered for the self-pipe;
\* every signal it handles returns at once and leaves the pipe non-empty, also
\* when the pipe is full; a non-empty pipe makes loop_poll return and report
\* the self-pipe; term_in then runs, unless an earlier callback of the same
\* iteration ended the process, and clears run_display.
C27_NoMissedSignal ==
  /\ [](handler = "do_sigusr" => "term_in" \in loop_fds)
  /\ [][(g_sigs' > g_sigs /\ handler = "do_sigusr")
          => (sigusr_pipe' > 0 /\ UNCHANGED <<pc, exit_status, run_display>>)]_vars
  /\ []((handler = "do_sigusr" /\ g_sigs > 0) => sigusr_pipe > 0)
  /\ []((pc = "poll" /\ sigusr_pipe > 0) => ENABLED loop_poll(FALSE))
  /\ [][(pc = "poll" /\ pc' # pc /\ sigusr_pipe > 0) => revents'.term]_vars
  /\ [][(revents.term /\ pc' # pc)
          => \/ pc \in {"display_in", "cb_comm"} /\ pc' \in {"cb_comm", "cb_term"}
                                                /\ revents'.term
             \/ pc \in {"display_in", "cb_comm"} /\ pc' = "exited"
             \/ pc = "cb_term" /\ pc' = "loop_head" /\ g_term'
                               /\ ~run_display']_vars

\* two signals arrived after sigaction and before run_display is set: the
\* second write found the pipe full, and main has not been held up
C27_Witness ==
  /\ pc = "setup"
  /\ ~run_display
  /\ handler = "do_sigusr"
  /\ g_sigs = 2
  /\ sigusr_pipe = PipeCap

\* C28: a lock surface is requested only while the lock object is live: no
\* get_lock_surface request is issued before the lock request, none once
\* run_display has become false in the main loop, and none after
\* unlock_and_destroy.
C28_SurfaceOnlyWhileLockLive ==
  [][(g_gls' # g_gls) =>
       /\ g_lock_reqs > 0
       /\ lock_obj = "live"
       /\ g_unlocks = 0
       /\ ~(InMainLoop /\ ~run_display)]_vars

\* C29: when poll reports the reply descriptor both readable and hung up,
\* comm_in reads the verdict and acts on it: a positive verdict stops the loop
\* for the unlock, a negative one is counted; only a failed read ends the
\* process there.  The exit for a crashed checker is taken only when hang-up
\* is reported without readable data.
C29_VerdictBeforeHangup ==
  /\ [][(pc = "cb_comm" /\ revents.comm = {"POLLIN", "POLLHUP"} /\ pc' # pc) =>
          \/ /\ pc' = "exited"
             /\ g_cause' = "comm_read"
             /\ UNCHANGED <<g_positive, g_negative>>
          \/ /\ pc' = "cb_term"
             /\ checker.reply = "ok"
             /\ g_positive' /\ ~run_display'
             /\ UNCHANGED <<g_negative, failed_attempts>>
          \/ /\ pc' = "cb_term"
             /\ checker.reply = "bad"
             /\ g_negative' = g_negative + 1
             /\ failed_attempts' = failed_attempts + 1
             /\ auth_state' = "INVALID"
             /\ UNCHANGED <<g_positive, run_display>>]_vars
  /\ [][(g_cause' = "comm_hup" /\ g_cause # "comm_hup") =>
          (pc = "cb_comm" /\ revents.comm = {"POLLHUP"})]_vars

\* poll has reported a positive verdict together with the hang-up and comm_in
\* is about to run
C29_Witness ==
  /\ pc = "cb_comm"
  /\ revents.comm = {"POLLIN", "POLLHUP"}
  /\ checker.reply = "ok"
  /\ ~checker.alive
  /\ run_display

\* C30: select_image returns the image registered under exactly the surface's
\* output name when there is one, otherwise the default image (registered
\* without an output name), otherwise none; an image registered under another
\* output name is never returned.
C30_SelectImage ==
  img_surface.selected =>
    LET name == img_surface.output_name
        exact == {i \in DOMAIN images :
                    name # NULL /\ images[i].output_name = name}
        default == {i \in DOMAIN images : images[i].output_name = NULL}
    IN  /\ Cardinality(exact) <= 1
        /\ Cardinality(default) <= 1
        /\ img_surface.image =
             IF exact # {} THEN images[CHOOSE i \in exact : TRUE].cairo_surface
             ELSE IF default # {}
                  THEN images[CHOOSE i \in default : TRUE].cairo_surface
             ELSE NoImage
        /\ \A i \in DOMAIN images :
             images[i].output_name \notin {NULL, name}
               => images[i].cairo_surface # img_surface.image

\* the default image and another output's image precede the surface's own
\* image in the list, and the surface's own image was selected
C30_Witness ==
  /\ img_surface.selected
  /\ Len(images) = 3
  /\ images[1].output_name = NULL
  /\ images[2].output_name \notin {NULL, img_surface.output_name}
  /\ images[3].output_name = img_surface.output_name
  /\ img_surface.image = images[3].cairo_surface

\* C31: when load_config meets a line the option parser rejects, the line
\* changes no setting, the lines after it are not read, and load_config
\* returns to main, which carries on with the settings of the lines before.
C31_RejectedLineChangesNothing ==
  [][/\ (config = "reading" /\ config' = "break")
          => UNCHANGED <<args_mode, ignore_empty>>
     /\ config = "break"
          => /\ UNCHANGED <<args_mode, ignore_empty, line_number>>
             /\ config' \in {"break", "returned"}]_vars

====
